---------------------------- MODULE Spec2Model ----------------------------
(***************************************************************************)
(* A model of examples/scenegraph.rs: a SceneGraph keeps a NodeGraph of    *)
(* local Transforms under a root id; add_child inserts a node and then an  *)
(* edge parent -> child; calculate_global_transforms walks the edges from  *)
(* the root, depth first, and sums the local transforms along the way.     *)
(*                                                                         *)
(* The NodeGraph crate itself (add_node, add_edge, node_data,              *)
(* get_edges_connected_to_node) is the library this example is built on;   *)
(* its four operations are modelled from section 4.2 of the specification. *)
(* What add_node does with an id that is already present is left open      *)
(* there ("implementation-defined but ... consistent"), so the model fixes *)
(* one of the two observable behaviours, overwrite or keep, when the       *)
(* store is created and never changes it.                                  *)
(*                                                                         *)
(* Transforms hold f32 values in the source.  The model counts positions   *)
(* in halves (x = 3 stands for 1.5) and rotations in whole degrees; every  *)
(* value the bounded model can reach is a small multiple of 0.5, which f32 *)
(* represents and adds exactly, so integer addition is what the code does. *)
(***************************************************************************)
EXTENDS Integers, Sequences, FiniteSets, TLC

VARIABLES
    graph,          \* SceneGraph.graph: [nodes: id -> Transform, edges: id -> Seq(id)]
    root_id,        \* SceneGraph.root_id
    on_duplicate,   \* what the store's add_node does with a present id
    pc,             \* "ready", or "hung" once a traversal never returns
    result,         \* what the last call returned
    n_calls,        \* history: add_child calls made so far
    all_ok,         \* history: every add_child so far returned Ok
    all_new         \* history: every add_child so far passed a child id absent from the store

vars == <<graph, root_id, on_duplicate, pc, result, n_calls, all_ok, all_new>>

-----------------------------------------------------------------------------
(* Bounds and input sets *)

\* add_child calls per behaviour
MaxCalls == 3

\* the ids of main(): the root and the three children it adds
IDs == {"root", "child1", "child2", "grandchild"}

RootId == "root"

DuplicatePolicies == {"overwrite", "keep"}

-----------------------------------------------------------------------------
(* Transform *)

\* Transform::new; x and y in halves, rotation in degrees
Transform_new(x, y, rotation) == [x |-> x, y |-> y, rotation |-> rotation]

\* the identity transform, Transform::new(0.0, 0.0, 0.0)
Identity == Transform_new(0, 0, 0)

\* the local transforms main() gives child1 and grandchild: (1,0,30), (0.5,0.5,45)
Transforms == {Transform_new(2, 0, 30), Transform_new(1, 1, 45)}

\* Transform::aggregate: component-wise sum of self and parent
aggregate(self, parent) ==
    [x |-> self.x + parent.x, y |-> self.y + parent.y,
     rotation |-> self.rotation + parent.rotation]

-----------------------------------------------------------------------------
(* The graph store (NodeGraph), from section 4.2 of the specification *)

EmptyMap == [k \in {} |-> Identity]

\* NodeGraph::new: no nodes, no edges
NodeGraph_new == [nodes |-> EmptyMap, edges |-> [k \in {} |-> <<>>]]

\* insert_node: adds the node; a present id is overwritten or kept
add_node(g, id, data) ==
    IF id \in DOMAIN g.nodes /\ on_duplicate = "keep"
    THEN g
    ELSE [g EXCEPT !.nodes = [k \in DOMAIN g.nodes \cup {id} |->
                                 IF k = id THEN data ELSE g.nodes[k]]]

\* outgoing_edges: the sequence of child ids, None (here: empty) without edges
get_edges_connected_to_node(g, id) ==
    IF id \in DOMAIN g.edges THEN g.edges[id] ELSE <<>>

\* insert_edge: fails if an endpoint is no node; else appends to from's edges
add_edge(g, from, to) ==
    IF from \notin DOMAIN g.nodes \/ to \notin DOMAIN g.nodes
    THEN [ok |-> FALSE, graph |-> g]
    ELSE [ok |-> TRUE,
          graph |-> [g EXCEPT !.edges =
                        [k \in DOMAIN g.edges \cup {from} |->
                            IF k = from
                            THEN Append(get_edges_connected_to_node(g, from), to)
                            ELSE g.edges[k]]]]

\* get_payload: Some(data) as <<data>>, None as <<>>
node_data(g, id) == IF id \in DOMAIN g.nodes THEN <<g.nodes[id]>> ELSE <<>>

-----------------------------------------------------------------------------
(* SceneGraph *)

\* SceneGraph::new: a store holding the root with the identity transform
SceneGraph_new(id) == [graph |-> add_node(NodeGraph_new, id, Identity), root_id |-> id]

Ok == [kind |-> "Ok"]
Err == [kind |-> "Err", message |-> "Failed to add edge. Does the parent exist?"]

\* add_child as it would be with the parent validated before the node is inserted
add_child_parent_checked_first(g, child_id, parent_id, transform) ==
    IF parent_id \notin DOMAIN g.nodes
    THEN [graph |-> g, ret |-> Err]
    ELSE LET e == add_edge(add_node(g, child_id, transform), parent_id, child_id)
         IN  [graph |-> e.graph, ret |-> IF e.ok THEN Ok ELSE Err]

\* add_child as it would be with the edge also added from the child back to the parent
add_child_both_directions(g, child_id, parent_id, transform) ==
    LET g1 == add_node(g, child_id, transform)
        e  == add_edge(g1, parent_id, child_id)
    IN  [graph |-> IF e.ok THEN add_edge(e.graph, child_id, parent_id).graph ELSE e.graph,
         ret   |-> IF e.ok THEN Ok ELSE Err]

\* SceneGraph::add_child: add_node(child), then add_edge(parent, child),
\* whose failure becomes the Err message; the node stays either way
add_child(g, child_id, parent_id, transform) ==
    LET g1 == add_node(g, child_id, transform)
        e  == add_edge(g1, parent_id, child_id)
    IN  [graph |-> e.graph, ret |-> IF e.ok THEN Ok ELSE Err]

\* HashMap::insert on the result map: a present key is overwritten
insert(global_transforms, id, t) ==
    [k \in DOMAIN global_transforms \cup {id} |->
        IF k = id THEN t ELSE global_transforms[k]]

(***************************************************************************)
(* traverse, the recursive function inside calculate_global_transforms.    *)
(* It performs no cycle detection, so on a cycle it recurses for ever (in  *)
(* the build: until the stack overflows).  A recursion deeper than the     *)
(* number of nodes has a node twice on its path, which is exactly the case *)
(* in which the code never returns; the model then yields returns = FALSE  *)
(* in place of a map.  depth is the number of nodes on the current path.   *)
(***************************************************************************)
RECURSIVE traverse(_, _, _, _, _)
RECURSIVE traverse_children(_, _, _, _, _, _)
RECURSIVE traverse_children_chained(_, _, _, _, _, _)

\* the loop over the children as it would be if each child inherited the
\* transform of the sibling visited before it
traverse_children_chained(g, children, i, global_transform, global_transforms, depth) ==
    IF i > Len(children)
    THEN [returns |-> TRUE, map |-> global_transforms]
    ELSE LET r == traverse(g, children[i], global_transform, global_transforms, depth + 1)
         IN  IF ~r.returns
             THEN r
             ELSE traverse_children_chained(g, children, i + 1,
                      IF children[i] \in DOMAIN r.map THEN r.map[children[i]]
                                                       ELSE global_transform,
                      r.map, depth)

\* lines 68-72: each child in edge order, every one with the node's global transform
traverse_children(g, children, i, global_transform, global_transforms, depth) ==
    IF i > Len(children)
    THEN [returns |-> TRUE, map |-> global_transforms]
    ELSE LET r == traverse(g, children[i], global_transform, global_transforms, depth + 1)
         IN  IF ~r.returns
             THEN r
             ELSE traverse_children(g, children, i + 1, global_transform, r.map, depth)

\* lines 58-74: a node absent from the store is skipped; otherwise its global
\* transform is its local one aggregated with the inherited one, it is
\* inserted into the map, and the children are traversed with it
traverse(g, node_id, current_transform, global_transforms, depth) ==
    IF depth > Cardinality(DOMAIN g.nodes)
    THEN [returns |-> FALSE, map |-> EmptyMap]
    ELSE IF node_data(g, node_id) = <<>>
    THEN [returns |-> TRUE, map |-> global_transforms]
    ELSE LET local_transform  == node_data(g, node_id)[1]
             global_transform == aggregate(local_transform, current_transform)
         IN  traverse_children(g, get_edges_connected_to_node(g, node_id), 1,
                               global_transform,
                               insert(global_transforms, node_id, global_transform),
                               depth)

\* lines 76-80: the root's own local transform, or the identity without a root
root_transform(g, r) ==
    IF node_data(g, r) = <<>> THEN Identity ELSE node_data(g, r)[1]

\* calculate_global_transforms as it would be if it wrote each global
\* transform back into the node it was computed for
calculate_global_transforms_caching(g, r) ==
    LET t == traverse(g, r, root_transform(g, r), EmptyMap, 1)
    IN  [graph |-> IF t.returns
                   THEN [g EXCEPT !.nodes = [k \in DOMAIN g.nodes |->
                            IF k \in DOMAIN t.map THEN t.map[k] ELSE g.nodes[k]]]
                   ELSE g,
         ret   |-> IF t.returns THEN [kind |-> "map", map |-> t.map]
                                ELSE [kind |-> "diverges"]]

\* calculate_global_transforms as it would be if it reported every node of
\* the store, the ones the traversal did not reach with their local transform
calculate_global_transforms_all_nodes(g, r) ==
    LET t == traverse(g, r, root_transform(g, r), EmptyMap, 1)
    IN  [graph |-> g,
         ret   |-> IF t.returns
                   THEN [kind |-> "map",
                         map  |-> [k \in DOMAIN g.nodes |->
                                     IF k \in DOMAIN t.map THEN t.map[k] ELSE g.nodes[k]]]
                   ELSE [kind |-> "diverges"]]

\* SceneGraph::calculate_global_transforms (&self: the graph is only read):
\* the traversal starts at the root with root_transform as the inherited one
calculate_global_transforms(g, r) ==
    LET t == traverse(g, r, root_transform(g, r), EmptyMap, 1)
    IN  [graph |-> g,
         ret   |-> IF t.returns THEN [kind |-> "map", map |-> t.map]
                                ELSE [kind |-> "diverges"]]

-----------------------------------------------------------------------------
(* The state machine: a caller that constructs a SceneGraph and then calls *)
(* add_child and calculate_global_transforms in any order                  *)

\* SceneGraph::new(root), with the store's duplicate behaviour chosen once
Init ==
    /\ on_duplicate \in DuplicatePolicies
    /\ graph = SceneGraph_new(RootId).graph
    /\ root_id = SceneGraph_new(RootId).root_id
    /\ pc = "ready"
    /\ result = [kind |-> "none"]
    /\ n_calls = 0
    /\ all_ok = TRUE
    /\ all_new = TRUE

\* one call add_child(child_id, parent_id, transform)
AddChild(child_id, parent_id, transform) ==
    /\ pc = "ready"
    /\ n_calls < MaxCalls
    /\ LET r == add_child(graph, child_id, parent_id, transform)
       IN  /\ graph' = r.graph
           /\ result' = r.ret
           /\ all_ok' = (all_ok /\ r.ret = Ok)
    /\ all_new' = (all_new /\ child_id \notin DOMAIN graph.nodes)
    /\ n_calls' = n_calls + 1
    /\ UNCHANGED <<root_id, on_duplicate, pc>>

\* one call calculate_global_transforms(); a traversal that never returns
\* leaves the caller hung
CalculateGlobalTransforms ==
    /\ pc = "ready"
    /\ LET r == calculate_global_transforms(graph, root_id)
       IN  /\ graph' = r.graph
           /\ result' = r.ret
           /\ pc' = IF r.ret.kind = "diverges" THEN "hung" ELSE "ready"
    /\ UNCHANGED <<root_id, on_duplicate, n_calls, all_ok, all_new>>

AddChildStep == \E c \in IDs, p \in IDs, t \in Transforms : AddChild(c, p, t)

Next == AddChildStep \/ CalculateGlobalTransforms

Spec == Init /\ [][Next]_vars

\* the same caller keeping to add_child's documented precondition: the child
\* id is not yet a node of the store
AddNewChildStep ==
    \E c \in IDs \ DOMAIN graph.nodes, p \in IDs, t \in Transforms : AddChild(c, p, t)

NextNewIds == AddNewChildStep \/ CalculateGlobalTransforms

SpecNewIds == Init /\ [][NextNewIds]_vars

-----------------------------------------------------------------------------
(* Vocabulary of the properties *)

\* what calculate_global_transforms would return in the store g
GlobalTransforms(g) == calculate_global_transforms(g, root_id).ret

\* the keys of that result; none when the traversal does not return
Keys(g) == IF GlobalTransforms(g).kind = "map" THEN DOMAIN GlobalTransforms(g).map ELSE {}

\* the ids with an edge p -> n
Parents(g, n) ==
    {p \in DOMAIN g.edges : \E i \in 1..Len(g.edges[p]) : g.edges[p][i] = n}

\* the number of edges into n, an edge added twice counted twice
InDegree(g, n) ==
    Cardinality(UNION {{<<p, i>> : i \in {j \in 1..Len(g.edges[p]) : g.edges[p][j] = n}} :
                          p \in DOMAIN g.edges})

\* the number of paths of at most k edges from the root to n
RECURSIVE PathCount(_, _, _)
PathCount(g, n, k) ==
    LET Sum[S \in SUBSET DOMAIN g.edges] ==
            IF S = {} THEN 0
            ELSE LET p == CHOOSE q \in S : TRUE
                 IN  Sum[S \ {p}]
                     + PathCount(g, p, k - 1)
                       * Cardinality({i \in 1..Len(g.edges[p]) : g.edges[p][i] = n})
    IN  (IF n = root_id THEN 1 ELSE 0) + (IF k = 0 THEN 0 ELSE Sum[DOMAIN g.edges])

\* the sums of the local transforms along the paths of at most k edges from
\* the root to n, the root's and n's included
RECURSIVE PathSums(_, _, _)
PathSums(g, n, k) ==
    (IF n = root_id THEN {g.nodes[n]} ELSE {})
    \cup (IF k = 0 THEN {}
          ELSE {aggregate(g.nodes[n], s) :
                   s \in UNION {PathSums(g, p, k - 1) : p \in Parents(g, n)}})

\* a tree: no edge into the root, one edge into every other node, and one
\* path from the root to every node
IsTree(g) ==
    /\ InDegree(g, root_id) = 0
    /\ \A n \in DOMAIN g.nodes \ {root_id} :
          InDegree(g, n) = 1 /\ PathCount(g, n, Cardinality(DOMAIN g.nodes)) = 1

-----------------------------------------------------------------------------
(* C1 *)

\* C1: after N add_child calls that all returned Ok, the map that
\* calculate_global_transforms returns has exactly N+1 entries, one for
\* every node of the store, the root and each added child
C1_ExactlyNPlusOneEntries ==
    (all_ok /\ result.kind = "map") =>
        /\ Cardinality(DOMAIN result.map) = n_calls + 1
        /\ DOMAIN result.map = DOMAIN graph.nodes

-----------------------------------------------------------------------------
(* C2 *)

\* C2: an add_child whose parent id is no node of the store when it is
\* called returns Err and creates no node with that parent id, whatever
\* the child id is
C2_MissingParentRejected ==
    [][\A c \in IDs, p \in IDs, t \in Transforms :
          (AddChild(c, p, t) /\ p \notin DOMAIN graph.nodes) =>
              (result' = Err /\ p \notin DOMAIN graph'.nodes)]_vars

-----------------------------------------------------------------------------
(* C6 *)

\* C6: in every state reached by add_child calls that all returned Ok the
\* hierarchy is a tree: the root has no incoming edge, every other node has
\* exactly one and is reached from the root by exactly one path
C6_IsTree == all_ok => IsTree(graph)

-----------------------------------------------------------------------------
(* C8 *)

\* C8: in every reachable state the entry calculate_global_transforms
\* returns for the root is the root's own local transform
C8_RootEntryIsLocal ==
    result.kind = "map" =>
        (root_id \in DOMAIN result.map /\ result.map[root_id] = graph.nodes[root_id])

-----------------------------------------------------------------------------
(* C4 *)

\* C4: for every non-root node n of the returned map, global(n) is n's local
\* transform plus the global transform of a parent of n, and it is the sum
\* of the local transforms along a path from the root to n
C4_PathSum ==
    result.kind = "map" =>
        \A n \in DOMAIN result.map \ {root_id} :
            /\ \E p \in Parents(graph, n) \cap DOMAIN result.map :
                  result.map[n] = aggregate(graph.nodes[n], result.map[p])
            /\ result.map[n] \in PathSums(graph, n, Cardinality(DOMAIN graph.nodes))

-----------------------------------------------------------------------------
(* C3 *)

\* C3, as stated: an add_child that returns Err leaves the map that
\* calculate_global_transforms returns as it was before the call and does
\* not add the child id as a key, for every child id
C3_FailedAddKeepsMap_AnyChild ==
    [][\A c \in IDs, p \in IDs, t \in Transforms :
          (AddChild(c, p, t) /\ result' = Err) =>
              /\ GlobalTransforms(graph') = GlobalTransforms(graph)
              /\ (c \notin Keys(graph) => c \notin Keys(graph'))]_vars

\* C3, amended: an add_child that returns Err, called with a child id that
\* is not a key of the map computed before the call, leaves that map as it
\* was and does not add the child id as a key
C3_FailedAddKeepsMap ==
    [][\A c \in IDs, p \in IDs, t \in Transforms :
          (AddChild(c, p, t) /\ result' = Err /\ c \notin Keys(graph)) =>
              /\ GlobalTransforms(graph') = GlobalTransforms(graph)
              /\ c \notin Keys(graph')]_vars

\* a failed add_child has left an orphan beside a hierarchy of two or more
\* nodes: the orphan is a node of the store and no key of the map
C3_Witness ==
    /\ result = Err
    /\ GlobalTransforms(graph).kind = "map"
    /\ Cardinality(Keys(graph)) >= 2
    /\ \E c \in DOMAIN graph.nodes : c \notin Keys(graph) /\ InDegree(graph, c) = 0

-----------------------------------------------------------------------------
(* C5 *)

\* C5, as stated: in every state reachable through construct and add_child,
\* whatever ids are passed, calculate_global_transforms terminates
C5_AlwaysTerminates == pc = "ready" /\ GlobalTransforms(graph).kind = "map"

\* C5, amended: while every add_child has passed a child id that was not
\* yet a node of the store, no cycle is reachable from the root and
\* calculate_global_transforms terminates
C5_NewIdsTerminate == all_new => (pc = "ready" /\ GlobalTransforms(graph).kind = "map")

\* three add_child calls with new child ids, one of them its own parent
\* (a cycle away from the root), and a computation that has returned
C5_Witness ==
    /\ all_new
    /\ n_calls >= 3
    /\ result.kind = "map"
    /\ Cardinality(DOMAIN result.map) >= 2
    /\ \E c \in DOMAIN graph.nodes : c \in Parents(graph, c)

-----------------------------------------------------------------------------
(* C7 *)

\* two ids that are new in every state of the model
SiblingA == "sibling_a"
SiblingB == "sibling_b"

\* C7: for every existing parent p and local transforms ta, tb, adding two
\* new children a then b under p yields the same result of
\* calculate_global_transforms as adding b then a
C7_SiblingOrder ==
    \A p \in DOMAIN graph.nodes, ta \in Transforms, tb \in Transforms :
        LET ab == add_child(add_child(graph, SiblingA, p, ta).graph, SiblingB, p, tb)
            ba == add_child(add_child(graph, SiblingB, p, tb).graph, SiblingA, p, ta)
        IN  /\ ab.ret = Ok /\ ba.ret = Ok
            /\ GlobalTransforms(ab.graph) = GlobalTransforms(ba.graph)

\* a parent other than the root with two different children, both in the
\* returned map with different global transforms
C7_Witness ==
    /\ result.kind = "map"
    /\ \E p \in DOMAIN graph.edges \ {root_id} :
          /\ Len(graph.edges[p]) = 2
          /\ graph.edges[p][1] # graph.edges[p][2]
          /\ {graph.edges[p][1], graph.edges[p][2]} \subseteq DOMAIN result.map
          /\ result.map[graph.edges[p][1]] # result.map[graph.edges[p][2]]

-----------------------------------------------------------------------------
(* C9 *)

-----------------------------------------------------------------------------
(* C10 *)

\* C10, as stated: after an add_child(c, p, t) that returns Err the store
\* holds c with local transform t, no edge was added, no other node was
\* added or changed, and the hierarchy accepts further calls
C10_FailedAddLeavesOrphan_WithT ==
    [][\A c \in IDs, p \in IDs, t \in Transforms :
          (AddChild(c, p, t) /\ result' = Err) =>
              /\ c \in DOMAIN graph'.nodes /\ graph'.nodes[c] = t
              /\ graph'.edges = graph.edges
              /\ DOMAIN graph'.nodes = DOMAIN graph.nodes \cup {c}
              /\ \A n \in DOMAIN graph.nodes \ {c} : graph'.nodes[n] = graph.nodes[n]
              /\ pc' = "ready"]_vars

\* C10, amended: after an add_child(c, p, t) that returns Err the store
\* holds c, with local transform t when c was not a node before the call
\* and with t or its previous transform when it was; no edge was added, no
\* other node was added or changed, and the hierarchy accepts further calls
C10_FailedAddLeavesOrphan ==
    [][\A c \in IDs, p \in IDs, t \in Transforms :
          (AddChild(c, p, t) /\ result' = Err) =>
              /\ c \in DOMAIN graph'.nodes
              /\ (c \notin DOMAIN graph.nodes => graph'.nodes[c] = t)
              /\ (c \in DOMAIN graph.nodes => graph'.nodes[c] \in {t, graph.nodes[c]})
              /\ graph'.edges = graph.edges
              /\ DOMAIN graph'.nodes = DOMAIN graph.nodes \cup {c}
              /\ \A n \in DOMAIN graph.nodes \ {c} : graph'.nodes[n] = graph.nodes[n]
              /\ pc' = "ready"]_vars

\* a failed add_child has left a node without an incoming edge in a store
\* that already held an edge
C10_Witness ==
    /\ result = Err
    /\ pc = "ready"
    /\ DOMAIN graph.edges # {}
    /\ \E c \in DOMAIN graph.nodes \ {root_id} :
          InDegree(graph, c) = 0 /\ graph.nodes[c] \in Transforms

====
